---- MODULE Spec2Model ----
(***************************************************************************)
(* A model of the shortest-path repository:                                *)
(*   - Dijkstra::find_shortest_path   (src/src/algorithms/dijkstra.rs)     *)
(*   - load_from_file, retrieve_start_end_nodes                            *)
(*                                    (src/src/graph/graph_loader.rs)      *)
(*   - the pipeline of tests::test_find_shortest_path that joins them.     *)
(*                                                                         *)
(* Spec     : one call of find_shortest_path on a bounded graph.           *)
(* SpecLoad : one run of load_from_file on a bounded file, followed by the *)
(*            test's unwrap / retrieve_start_end_nodes / engine call.      *)
(***************************************************************************)
EXTENDS Integers, Sequences, FiniteSets, TLC

\* ------------------------------------------------------------------ bounds
\* Node identifiers of the enumerated graphs are 1..MaxNode.
MaxNode == 3
\* The enumerated graphs have at most MaxEdges edges.
MaxEdges == 2
\* The enumerated input files have at most MaxLines lines.
MaxLines == 3

\* --------------------------------------------------------------- constants
\* The width of usize, scaled down: distances and weights are WIDTH-bit
\* unsigned integers and MAX is the largest of them (std::usize::MAX).
WIDTH == 4
MAX == (2 ^ WIDTH) - 1

Ids == 1 .. MaxNode
\* The edge weights the enumerated graphs draw from: zero, a small weight and
\* the largest representable weight.
Weights == {0, 1, MAX}

VARIABLES
    \* ---- find_shortest_path: arguments
    graph,            \* [nodes: Seq(id), edges: Seq([node1, node2, weight])]
    start,
    end,
    overflow_checks,  \* the build's overflow checks: "on" panics on overflow,
                      \* "off" wraps, "either" while no sum has overflowed yet
    \* ---- find_shortest_path: locals
    distances,        \* HashMap<usize, usize>, a function on its key set
    previous,         \* HashMap<usize, usize>, a function on its key set
    nodes,            \* Vec<usize>: the unvisited list
    path,             \* Vec<usize> under reconstruction
    current,
    pc,               \* "idle" | "loop" | "rebuild" | "done" | "panic" | "diverge"
    result,           \* Option<Vec<usize>>: [some, path]
    cands,            \* the candidates <<sum, alt_dist>> of the last loop step
    \* ---- load_from_file and the test that calls it
    file,             \* the lines of the input file
    pos,              \* the number of lines consumed
    section,
    ld_nodes,
    ld_edges,
    shortest_path,
    load_result,      \* "idle" | "reading" | "ok" | "invalid_data" | "panic"
    test              \* "idle" | "loading" | "invoked" | "panicked"

evars == <<graph, start, end, overflow_checks, distances, previous, nodes,
           path, current, pc, result, cands>>
lvars == <<file, pos, section, ld_nodes, ld_edges, shortest_path,
           load_result, test>>
vars == <<evars, lvars>>

\* ------------------------------------------------------------ collections
Range(s) == {s[i] : i \in 1 .. Len(s)}

RECURSIVE Reverse(_)
Reverse(s) == IF s = <<>> THEN <<>> ELSE Append(Reverse(Tail(s)), Head(s))

\* Vec::retain(|&n| n != x)
RECURSIVE Retain(_, _)
Retain(s, x) ==
    IF s = <<>> THEN <<>>
    ELSE IF Head(s) # x THEN <<Head(s)>> \o Retain(Tail(s), x)
    ELSE Retain(Tail(s), x)

\* HashMap::insert
MapInsert(m, k, v) == [x \in (DOMAIN m) \cup {k} |-> IF x = k THEN v ELSE m[x]]

EmptyMap == [x \in {} |-> 0]

None == [some |-> FALSE, path |-> <<>>]
Some(p) == [some |-> TRUE, path |-> p]

\* ------------------------------------------------- find_shortest_path
\* lines 57-61: every node of the graph at MAX, then start at 0.
RECURSIVE InsertAll(_, _)
InsertAll(m, ns) ==
    IF ns = <<>> THEN m ELSE InsertAll(MapInsert(m, Head(ns), MAX), Tail(ns))

InitDistances(g, s) == MapInsert(InsertAll(EmptyMap, g.nodes), s, 0)

InitNodes(g) == g.nodes

\* line 65: Iterator::min_by_key returns the first of several minima.
MinByKey(ns, d) ==
    ns[CHOOSE i \in 1 .. Len(ns) :
          \A j \in 1 .. Len(ns) :
              /\ d[ns[i]] <= d[ns[j]]
              /\ (j < i => d[ns[j]] > d[ns[i]])]

\* lines 77-78: distances[&closest_node] + edge.weight on usize; a build
\* without overflow checks wraps.
WrappingAdd(a, b) == (a + b) % (MAX + 1)

\* lines 77-85 for one edge that touches closest_node; st is the loop's
\* state [distances, previous, status, overflowed, cands]; checks is whether
\* the build panics on overflow.
RelaxTo(st, neighbor, weight, closest_node, checks) ==
    LET sum == st.distances[closest_node] + weight
        alt_dist == WrappingAdd(st.distances[closest_node], weight)
        seen == [st EXCEPT !.cands = @ \cup {<<sum, alt_dist>>},
                           !.overflowed = @ \/ sum > MAX]
    IN  IF sum > MAX /\ checks
        THEN [st EXCEPT !.status = "panic",     \* attempt to add with overflow
                        !.overflowed = TRUE]
        ELSE IF neighbor \notin DOMAIN st.distances
        THEN [seen EXCEPT !.status = "panic"]   \* HashMap index: key not found
        ELSE IF alt_dist < st.distances[neighbor]
        THEN [seen EXCEPT !.distances = MapInsert(@, neighbor, alt_dist),
                          !.previous = MapInsert(@, neighbor, closest_node)]
        ELSE seen

\* lines 75-86: the edges in order; a panic ends the loop.
RECURSIVE RelaxEdges(_, _, _, _)
RelaxEdges(st, es, closest_node, checks) ==
    IF es = <<>> \/ st.status # "ok" THEN st
    ELSE LET edge == Head(es)
             next == IF edge.node1 = closest_node
                     THEN RelaxTo(st, edge.node2, edge.weight, closest_node, checks)
                     ELSE IF edge.node2 = closest_node
                     THEN RelaxTo(st, edge.node1, edge.weight, closest_node, checks)
                     ELSE st
         IN  RelaxEdges(next, Tail(es), closest_node, checks)

\* A variant of LoopBreaks without the early exit at end.
LoopBreaksNoEnd(closest_node) == distances[closest_node] = MAX

\* line 67: the loop's break condition on the extracted node.
LoopBreaks(closest_node) ==
    closest_node = end \/ distances[closest_node] = MAX

\* A variant of PathResult without the check of the path's first element.
PathResultUnchecked(p, s) == Some(p)

\* lines 102-107
PathResult(p, s) == IF p = <<>> \/ Head(p) # s THEN None ELSE Some(p)

\* The walk of lines 93-96 has pushed more nodes than previous has keys only
\* if it is going round a cycle of previous: the real loop never ends.
WalkDiverges == Len(path) > Cardinality(DOMAIN previous)

\* ------------------------------------------------------------ the inputs
RECURSIVE Ascending(_)
Ascending(S) ==
    IF S = {} THEN <<>>
    ELSE LET m == CHOOSE x \in S : \A y \in S : x <= y
         IN  <<m>> \o Ascending(S \ {m})

\* graph.nodes: the nodes of any subset of Ids. The engine only compares
\* identifiers for equality, so a list in another order is one of these with
\* its identifiers renamed (start, end and the edges range over all of Ids).
NodeLists == {Ascending(S) : S \in SUBSET Ids}

\* graph.edges: the engine reads node1 and node2 symmetrically (lines 77-78),
\* so each undirected edge is enumerated once; endpoints need not be nodes of
\* the graph, as neither the Graph constructor nor the loader checks them.
EdgeOptions ==
    {e \in [node1 : Ids, node2 : Ids, weight : Weights] : e.node1 <= e.node2}

EdgeKey(e) == ((e.node1 * (MaxNode + 1)) + e.node2) * (MAX + 1) + e.weight

\* At most MaxEdges distinct edges (parallel edges of different weights
\* included), listed in the order of their keys.
EdgeLists ==
    {es \in UNION {[1 .. k -> EdgeOptions] : k \in 0 .. MaxEdges} :
        \A i, j \in 1 .. Len(es) : i < j => EdgeKey(es[i]) < EdgeKey(es[j])}

Edge(a, b, w) == [node1 |-> a, node2 |-> b, weight |-> w]

\* The graph built by main.
MainGraph ==
    [nodes |-> <<1, 2, 3, 4, 5, 6>>,
     edges |-> <<Edge(1, 2, 1), Edge(1, 3, 3), Edge(2, 3, 1), Edge(3, 4, 2),
                 Edge(2, 4, 5), Edge(4, 5, 1), Edge(5, 6, 1), Edge(1, 6, 10)>>]

LoaderIdle ==
    /\ file = <<>>
    /\ pos = 0
    /\ section = "none"
    /\ ld_nodes = <<>>
    /\ ld_edges = <<>>
    /\ shortest_path = <<>>
    /\ load_result = "idle"
    /\ test = "idle"

\* lines 43-61: the call with its tables initialised.
Call(g, s, e) ==
    /\ graph = g
    /\ start = s
    /\ end = e
    /\ overflow_checks = "either"
    /\ distances = InitDistances(g, s)
    /\ previous = EmptyMap
    /\ nodes = InitNodes(g)
    /\ path = <<>>
    /\ current = e
    /\ pc = "loop"
    /\ result = None
    /\ cands = {}

Init ==
    /\ LoaderIdle
    /\ \/ \E ns \in NodeLists, es \in EdgeLists, s \in Ids, e \in Ids :
              Call([nodes |-> ns, edges |-> es], s, e)
       \/ Call(MainGraph, 1, 6)

\* ------------------------------------------------------------ the actions
\* lines 65-69: nothing left to extract, or the extracted node ends the loop;
\* lines 90-91 start the walk back from end.
LoopExit ==
    /\ pc = "loop"
    /\ IF nodes = <<>> THEN TRUE ELSE LoopBreaks(MinByKey(nodes, distances))
    /\ pc' = "rebuild"
    /\ path' = <<>>
    /\ current' = end
    /\ UNCHANGED <<graph, start, end, overflow_checks, distances, previous,
                   nodes, result, cands>>
    /\ UNCHANGED lvars

\* The builds still possible: the first sum that overflows tells them apart.
Builds == IF overflow_checks = "either" THEN {"on", "off"} ELSE {overflow_checks}

\* lines 65-86: one iteration of the main loop.
LoopStep ==
    /\ pc = "loop"
    /\ nodes # <<>>
    /\ \E build \in Builds :
         LET closest_node == MinByKey(nodes, distances)
             st == RelaxEdges([distances |-> distances, previous |-> previous,
                               status |-> "ok", overflowed |-> FALSE,
                               cands |-> {}],
                              graph.edges, closest_node, build = "on")
         IN  /\ ~LoopBreaks(closest_node)
             /\ nodes' = Retain(nodes, closest_node)
             /\ distances' = st.distances
             /\ previous' = st.previous
             /\ cands' = st.cands
             /\ overflow_checks' = IF st.overflowed THEN build ELSE overflow_checks
             /\ pc' = IF st.status = "ok" THEN "loop" ELSE "panic"
    /\ UNCHANGED <<graph, start, end, path, current, result>>
    /\ UNCHANGED lvars

\* lines 93-96: one step of the walk along previous.
WalkStep ==
    /\ pc = "rebuild"
    /\ current \in DOMAIN previous
    /\ IF WalkDiverges
       THEN pc' = "diverge" /\ UNCHANGED <<path, current>>
       ELSE /\ path' = Append(path, current)
            /\ current' = previous[current]
            /\ pc' = pc
    /\ UNCHANGED <<graph, start, end, overflow_checks, distances, previous,
                   nodes, result, cands>>
    /\ UNCHANGED lvars

\* lines 97-107: the walk is over; reverse and return.
Return ==
    /\ pc = "rebuild"
    /\ current \notin DOMAIN previous
    /\ path' = Reverse(Append(path, current))
    /\ result' = PathResult(path', start)
    /\ pc' = "done"
    /\ UNCHANGED <<graph, start, end, overflow_checks, distances, previous,
                   nodes, current, cands>>
    /\ UNCHANGED lvars

Next == LoopExit \/ LoopStep \/ WalkStep \/ Return

Spec == Init /\ [][Next]_vars

\* --------------------------------------------------------- load_from_file
\* A line is the sequence of its whitespace-separated tokens, joined by
\* single spaces. The section headers are the lines "# Nodes", "# Edges" and
\* "# ShortestPath"; "# Other" stands for any other line that starts with '#'.
Headers ==
    {<<"#", "Nodes">>, <<"#", "Edges">>, <<"#", "ShortestPath">>, <<"#", "Other">>}

\* The tokens of data lines: two decimal numbers and one that is no number.
DataTokens == {"1", "2", "x"}

DataLines == UNION {[1 .. k -> DataTokens] : k \in 0 .. 3}

LineOptions == Headers \cup DataLines

Files == UNION {[1 .. k -> LineOptions] : k \in 0 .. MaxLines}

\* str::parse::<usize>
ParseUsize(tok) ==
    CASE tok = "1" -> [ok |-> TRUE, val |-> 1]
      [] tok = "2" -> [ok |-> TRUE, val |-> 2]
      [] OTHER -> [ok |-> FALSE, val |-> 0]

\* line 52: line.starts_with('#')
StartsWithHash(line) == line # <<>> /\ line[1] = "#"

\* lines 53-58: the section a header line names, "invalid" for any other.
SectionOf(line) ==
    CASE line = <<"#", "Nodes">> -> "nodes"
      [] line = <<"#", "Edges">> -> "edges"
      [] line = <<"#", "ShortestPath">> -> "shortest_path"
      [] OTHER -> "invalid"

\* line 63: line.parse() on the whole line: a line of several tokens holds
\* whitespace and an empty line holds no digit, so neither parses.
ParseNodeLine(line) ==
    IF Len(line) = 1 THEN ParseUsize(line[1]) ELSE [ok |-> FALSE, val |-> 0]

\* lines 68-77: Ok(edge) or the InvalidData error.
ParseEdgeLine(line) ==
    IF Len(line) # 3 THEN [ok |-> FALSE, val |-> Edge(0, 0, 0)]
    ELSE LET n1 == ParseUsize(line[1])
             n2 == ParseUsize(line[2])
             w == ParseUsize(line[3])
         IN  IF n1.ok /\ n2.ok /\ w.ok
             THEN [ok |-> TRUE, val |-> Edge(n1.val, n2.val, w.val)]
             ELSE [ok |-> FALSE, val |-> Edge(0, 0, 0)]

\* lines 80-82: every token parsed and unwrapped; ok is FALSE when an unwrap
\* panics.
ParsePathLine(line) ==
    IF \A i \in 1 .. Len(line) : ParseUsize(line[i]).ok
    THEN [ok |-> TRUE, val |-> [i \in 1 .. Len(line) |-> ParseUsize(line[i]).val]]
    ELSE [ok |-> FALSE, val |-> <<>>]

\* lines 120-136
RetrieveStartEndNodes(p) ==
    IF p = <<>> THEN [ok |-> FALSE, start |-> 0, end |-> 0]
    ELSE [ok |-> TRUE, start |-> p[1], end |-> p[Len(p)]]

EngineIdle ==
    /\ graph = [nodes |-> <<>>, edges |-> <<>>]
    /\ start = 0
    /\ end = 0
    /\ overflow_checks = "either"
    /\ distances = EmptyMap
    /\ previous = EmptyMap
    /\ nodes = <<>>
    /\ path = <<>>
    /\ current = 0
    /\ pc = "idle"
    /\ result = None
    /\ cands = {}

\* lines 39-48: the file is open and nothing is read yet.
InitLoad ==
    /\ EngineIdle
    /\ file \in Files
    /\ pos = 0
    /\ section = "none"
    /\ ld_nodes = <<>>
    /\ ld_edges = <<>>
    /\ shortest_path = <<>>
    /\ load_result = "reading"
    /\ test = "loading"

Reading == load_result = "reading" /\ pos < Len(file)

Line == file[pos + 1]

\* lines 52-58: a section header.
ReadHeader ==
    /\ Reading
    /\ StartsWithHash(Line)
    /\ pos' = pos + 1
    /\ IF SectionOf(Line) = "invalid"
       THEN load_result' = "invalid_data" /\ UNCHANGED section
       ELSE section' = SectionOf(Line) /\ UNCHANGED load_result
    /\ UNCHANGED <<file, ld_nodes, ld_edges, shortest_path, test>>
    /\ UNCHANGED evars

\* line 59 with section None: a line before the first header is dropped.
SkipLine ==
    /\ Reading
    /\ ~StartsWithHash(Line)
    /\ section = "none"
    /\ pos' = pos + 1
    /\ UNCHANGED <<file, section, ld_nodes, ld_edges, shortest_path,
                   load_result, test>>
    /\ UNCHANGED evars

\* lines 61-65
ReadNode ==
    /\ Reading
    /\ ~StartsWithHash(Line)
    /\ section = "nodes"
    /\ pos' = pos + 1
    /\ IF ParseNodeLine(Line).ok
       THEN ld_nodes' = Append(ld_nodes, ParseNodeLine(Line).val)
            /\ UNCHANGED load_result
       ELSE load_result' = "invalid_data" /\ UNCHANGED ld_nodes
    /\ UNCHANGED <<file, section, ld_edges, shortest_path, test>>
    /\ UNCHANGED evars

\* lines 66-78
ReadEdge ==
    /\ Reading
    /\ ~StartsWithHash(Line)
    /\ section = "edges"
    /\ pos' = pos + 1
    /\ IF ParseEdgeLine(Line).ok
       THEN ld_edges' = Append(ld_edges, ParseEdgeLine(Line).val)
            /\ UNCHANGED load_result
       ELSE load_result' = "invalid_data" /\ UNCHANGED ld_edges
    /\ UNCHANGED <<file, section, ld_nodes, shortest_path, test>>
    /\ UNCHANGED evars

\* lines 79-83: the line replaces shortest_path; a token that does not
\* parse panics in unwrap.
ReadPath ==
    /\ Reading
    /\ ~StartsWithHash(Line)
    /\ section = "shortest_path"
    /\ pos' = pos + 1
    /\ IF ParsePathLine(Line).ok
       THEN shortest_path' = ParsePathLine(Line).val /\ UNCHANGED load_result
       ELSE load_result' = "panic" /\ UNCHANGED shortest_path
    /\ UNCHANGED <<file, section, ld_nodes, ld_edges, test>>
    /\ UNCHANGED evars

\* lines 87-90: the end of the file: Ok((Graph { nodes, edges }, shortest_path)).
LoadOk ==
    /\ load_result = "reading"
    /\ pos = Len(file)
    /\ load_result' = "ok"
    /\ UNCHANGED <<file, pos, section, ld_nodes, ld_edges, shortest_path, test>>
    /\ UNCHANGED evars

\* The graph load_from_file returns.
LoadedGraph == [nodes |-> ld_nodes, edges |-> ld_edges]

\* dijkstra.rs lines 150-153: the test unwraps the load and the endpoints,
\* then calls find_shortest_path on the loaded graph.
TestInvoke ==
    /\ test = "loading"
    /\ load_result = "ok"
    /\ RetrieveStartEndNodes(shortest_path).ok
    /\ test' = "invoked"
    /\ graph' = LoadedGraph
    /\ start' = RetrieveStartEndNodes(shortest_path).start
    /\ end' = RetrieveStartEndNodes(shortest_path).end
    /\ UNCHANGED <<overflow_checks, distances, previous, nodes, path, current,
                   pc, result, cands>>
    /\ UNCHANGED <<file, pos, section, ld_nodes, ld_edges, shortest_path,
                   load_result>>

\* dijkstra.rs lines 150-151: an unwrap of Err panics before the call.
TestPanic ==
    /\ test = "loading"
    /\ \/ load_result = "invalid_data"
       \/ load_result = "ok" /\ ~RetrieveStartEndNodes(shortest_path).ok
    /\ test' = "panicked"
    /\ UNCHANGED <<file, pos, section, ld_nodes, ld_edges, shortest_path,
                   load_result>>
    /\ UNCHANGED evars

NextLoad ==
    \/ ReadHeader \/ SkipLine \/ ReadNode \/ ReadEdge \/ ReadPath
    \/ LoadOk \/ TestInvoke \/ TestPanic

SpecLoad == InitLoad /\ [][NextLoad]_vars

\* ---------------------------------------------- reference graph notions
\* The undirected graph the claims speak of, independent of the engine.
EdgeSet == Range(graph.edges)

NodeIds == {graph.nodes[i] : i \in 1 .. Len(graph.nodes)}

\* The graph invariant of the data model: every endpoint is a node.
GraphInvariant == \A e \in EdgeSet : e.node1 \in NodeIds /\ e.node2 \in NodeIds

Adjacent(a, b) ==
    \E e \in EdgeSet : (e.node1 = a /\ e.node2 = b) \/ (e.node1 = b /\ e.node2 = a)

RECURSIVE Closure(_)
Closure(S) ==
    LET T == S \cup {b \in UNION {{e.node1, e.node2} : e \in EdgeSet} :
                       \E a \in S : Adjacent(a, b)}
    IN  IF T = S THEN S ELSE Closure(T)

\* The identifiers joined to start by a sequence of edges.
Component(s) == Closure({s})

AllIds == NodeIds \cup UNION {{e.node1, e.node2} : e \in EdgeSet} \cup {start, end}

\* Larger than the weight of any simple path.
Infinite == (Cardinality(EdgeSet) + 1) * (MAX + 1)

Min2(a, b) == IF a <= b THEN a ELSE b

RECURSIVE MinOf(_)
MinOf(S) ==
    LET x == CHOOSE y \in S : TRUE
    IN  IF S = {x} THEN x ELSE Min2(x, MinOf(S \ {x}))

\* Bellman-Ford on unbounded integers: TrueDist(k)[v] is the least weight of
\* a path from start to v of at most k edges.
RECURSIVE TrueDist(_)
TrueDist(k) ==
    IF k = 0 THEN [v \in AllIds |-> IF v = start THEN 0 ELSE Infinite]
    ELSE LET d == TrueDist(k - 1)
         IN  [v \in AllIds |->
                MinOf({d[v]} \cup
                      {d[e.node1] + e.weight : e \in {f \in EdgeSet : f.node2 = v}} \cup
                      {d[e.node2] + e.weight : e \in {f \in EdgeSet : f.node1 = v}})]

\* The minimum total weight over all paths between start and v.
MinWeight(v) == TrueDist(Cardinality(AllIds))[v]

\* The cheapest edge between two adjacent identifiers.
CheapestEdge(a, b) ==
    MinOf({e.weight : e \in {f \in EdgeSet : (f.node1 = a /\ f.node2 = b)
                                             \/ (f.node1 = b /\ f.node2 = a)}})

RECURSIVE PathWeight(_)
PathWeight(p) ==
    IF Len(p) < 2 THEN 0
    ELSE CheapestEdge(p[1], p[2]) + PathWeight(Tail(p))

IsWalk(p) == \A i \in 1 .. Len(p) - 1 : Adjacent(p[i], p[i + 1])

\* A query the data model allows in full: the graph satisfies its invariant
\* and both endpoints are nodes of it.
WellFormedQuery == GraphInvariant /\ start \in NodeIds /\ end \in NodeIds

\* The call is over: it returned, panicked, or can never return.
Ended == pc \in {"done", "panic", "diverge"}

Returned == pc = "done"

\* ------------------------------------------------------------ the claims

\* C1: for every graph and every pair (start, end) with end reachable from
\* start, find_shortest_path returns Some(path) whose total edge weight is
\* the minimum over all paths between start and end. Stated here for the
\* well-formed queries and for the calls that return.
C1_ShortestPathIsMinimal ==
    (Returned /\ WellFormedQuery /\ end \in Component(start))
        => /\ result.some
           /\ IsWalk(result.path)
           /\ PathWeight(result.path) = MinWeight(end)

\* What holds instead of C1: the returned path is minimal when the graph
\* satisfies the invariant, no sum has overflowed and the minimum lies below
\* the sentinel MAX.
OptimalBelowSentinel ==
    (Returned /\ GraphInvariant /\ end \in Component(start)
       /\ overflow_checks = "either" /\ MinWeight(end) < MAX)
        => /\ result.some
           /\ IsWalk(result.path)
           /\ PathWeight(result.path) = MinWeight(end)

\* The scenario of main: the query (1, 6) returns the path of weight 6.
MainScenario ==
    (Returned /\ graph = MainGraph)
        => result = Some(<<1, 2, 3, 4, 5, 6>>) /\ PathWeight(result.path) = 6

\* C2: whenever find_shortest_path returns Some(path), the path is not
\* empty, starts at start, ends at end, and every two consecutive elements
\* are the endpoints of an edge of the graph, in either direction.
C2_ReturnedPathIsValid ==
    (Returned /\ result.some)
        => /\ result.path # <<>>
           /\ result.path[1] = start
           /\ result.path[Len(result.path)] = end
           /\ IsWalk(result.path)

\* A path of two edges was returned.
C2_Witness == Returned /\ result.some /\ Len(result.path) = 3

\* C3: for start # end in different connected components, the call returns
\* None. Stated here for the well-formed queries.
C3_AcrossComponentsIsNone ==
    (Ended /\ WellFormedQuery /\ start # end /\ end \notin Component(start))
        => (Returned /\ result = None)

\* What holds instead of C3: a call across components that returns, returns
\* None, whatever the graph.
AcrossComponentsNeverSome ==
    (Returned /\ start # end /\ end \notin Component(start)) => result = None

\* C4: if start or end is not the id of a node of the graph, the call
\* returns None, neither a path nor a failure. Stated here for the graphs
\* that satisfy the graph invariant.
C4_AbsentEndpointIsNone ==
    (Ended /\ GraphInvariant /\ (start \notin NodeIds \/ end \notin NodeIds))
        => (Returned /\ result = None)

\* C5: for every graph and every id s, the call (s, s) returns Some([s]),
\* the single-element path, at cost zero; it neither panics nor diverges.
C5_StartIsEnd ==
    (Ended /\ start = end)
        => /\ Returned
           /\ result = Some(<<start>>)
           /\ PathWeight(result.path) = 0
           /\ start \in DOMAIN distances
           /\ distances[start] = 0

\* The call (s, s) returned on a graph where s is a node with an edge to
\* another identifier.
C5_Witness ==
    /\ Returned
    /\ start = end
    /\ start \in NodeIds
    /\ \E b \in AllIds : b # start /\ Adjacent(start, b)

\* C9: in the main loop a node's tentative distance never increases from one
\* step to the next, and once a node is extracted and removed from the
\* unvisited list, no later relaxation changes its distance or predecessor.
\* Stated here for the well-formed queries.
C9_SettledIsFinal ==
    [][(pc = "loop" /\ WellFormedQuery)
         => \A n \in DOMAIN distances :
               /\ distances'[n] <= distances[n]
               /\ (n \in NodeIds /\ n \notin Range(nodes'))
                    => /\ distances'[n] = distances[n]
                       /\ (n \in DOMAIN previous) = (n \in DOMAIN previous')
                       /\ n \in DOMAIN previous => previous'[n] = previous[n]]_vars

\* The first half of C9 alone holds: no tentative distance ever increases.
DistancesNeverIncrease ==
    [][\A n \in DOMAIN distances : distances'[n] <= distances[n]]_vars

\* C10: in every relaxation step the candidate distance equals the
\* mathematical sum current_distance + edge_weight: it never wraps. Stated
\* here for the well-formed queries; every weight of the model fits WIDTH bits.
C10_CandidateNeverWraps ==
    WellFormedQuery => \A c \in cands : c[2] = c[1]

\* The loader's file: the headers it holds.
HasHeader(h) == \E i \in 1 .. Len(file) : file[i] = h

MissesHeader ==
    \/ ~HasHeader(<<"#", "Nodes">>)
    \/ ~HasHeader(<<"#", "Edges">>)
    \/ ~HasHeader(<<"#", "ShortestPath">>)

Loaded == load_result \in {"ok", "invalid_data", "panic"}

\* C6: for every file in which a required section header is missing,
\* load_from_file returns the InvalidData error and produces no graph, so
\* the engine is never invoked on it.
C6_MissingHeaderIsRejected ==
    MissesHeader
        => /\ Loaded => load_result = "invalid_data"
           /\ test # "invoked"

\* The section in force at line i: the one named by the last header before it.
RECURSIVE SectionAt(_)
SectionAt(i) ==
    IF i <= 1 THEN "none"
    ELSE IF StartsWithHash(file[i - 1]) THEN SectionOf(file[i - 1])
    ELSE SectionAt(i - 1)

\* Line i is a data line that its section cannot parse.
Defect(i) ==
    /\ ~StartsWithHash(file[i])
    /\ \/ SectionAt(i) = "nodes" /\ ~ParseNodeLine(file[i]).ok
       \/ SectionAt(i) = "edges" /\ ~ParseEdgeLine(file[i]).ok
       \/ SectionAt(i) = "shortest_path" /\ ~ParsePathLine(file[i]).ok

\* C7: an integer that does not parse in any of the three sections, or an
\* edge line whose field count is not 3, makes load_from_file return the
\* InvalidData error; it is never accepted and never aborts the program.
C7_DefectIsInvalidData ==
    (Loaded /\ \E i \in 1 .. Len(file) : Defect(i))
        => load_result = "invalid_data"

\* C8: every graph a successful load_from_file returns satisfies the graph
\* invariant: both endpoints of every edge are nodes of the graph.
C8_LoadedGraphInvariant ==
    load_result = "ok"
        => \A i \in 1 .. Len(ld_edges) :
              /\ ld_edges[i].node1 \in Range(ld_nodes)
              /\ ld_edges[i].node2 \in Range(ld_nodes)

====
